---- MODULE Spec2Model ----
(***************************************************************************)
(* Memory-mapped, chunk-addressable corpus store                            *)
(* (nemo/collections/nlp/data/language_modeling/megatron/                   *)
(*  indexed_retrieval_dataset.py).                                          *)
(*                                                                         *)
(* A data file (.bin) is modelled as the sequence of its elements; a byte  *)
(* offset o into it denotes element o / dtype_size.  An index file (.idx)  *)
(* is modelled as the sequence of its fields in file order: magic,        *)
(* version, dtype code, number of documents, chunk size, number of chunks, *)
(* retrieval_db flag, then the four arrays value by value.  The empty      *)
(* sequence stands for a file that does not exist.                         *)
(***************************************************************************)
EXTENDS Integers, Sequences, FiniteSets, TLC

VARIABLES
    builder,   \* builder[b]: the fields of the builder of corpus b
    bin,       \* bin[b]: the data file of corpus b
    idx,       \* idx[b]: the index file of corpus b
    items,     \* items[b]: for every size builder b recorded, the token array
               \* it stands for, where its elements were put in the data
               \* file and how many, and the call that recorded it
    last,      \* the most recent call and its outcome
    writer,    \* an index writer driven directly with a size list
    proc       \* the store objects of a reading process and the cache of
               \* index lookups they share

vars == <<builder, bin, idx, items, last, writer, proc>>

(* ------------------------------ bounds --------------------------------- *)

\* longest token array handed to add_item
MaxLen == 2
\* largest number of sizes the builders hold together
MaxDocs == 3
\* largest chunk_size a builder is constructed with
MaxChunk == 2
\* token values are 0 .. MaxTok; the pad value 0 is one of them
MaxTok == 2
\* longest size list handed directly to the index writer
MaxWriteDocs == 3
\* largest size handed directly to the index writer
MaxWriteSize == 4

(* ------------------------- module-level items --------------------------- *)

\* the two corpora (path prefixes); each has one builder writing to it
Builders == {1, 2}

\* the builders on which merge_file_ is called
Mergers == {1}

\* dtypes: itemsize of the element type of each dtype code
dtypes == [k \in 1..8 |->
             CASE k = 1 -> 1
               [] k = 2 -> 1
               [] k = 3 -> 2
               [] k = 4 -> 4
               [] k = 5 -> 8
               [] k = 6 -> 8
               [] k = 7 -> 8
               [] k = 8 -> 2]

\* dtypes: the element type of each dtype code; np.float is the builtin
\* float and np.double is np.float64
np_dtypes ==
    <<"uint8", "int8", "int16", "int32", "int64", "float", "float64", "uint16">>

\* the element types a caller hands to the index writer: those of the table,
\* and np.float32 and np.float16
DtypeNames == {np_dtypes[k] : k \in DOMAIN np_dtypes} \cup {"float32", "float16"}

\* code(dtype): the first key of the table whose type is dtype
code(dtype) ==
    IF \E k \in DOMAIN np_dtypes : np_dtypes[k] = dtype
    THEN [err |-> "none",
          val |-> CHOOSE k \in DOMAIN np_dtypes :
                      /\ np_dtypes[k] = dtype
                      /\ \A j \in 1..(k - 1) : np_dtypes[j] # dtype]
    ELSE [err |-> "ValueError", val |-> 0]

\* dtype().itemsize: a numpy scalar carries its width, a builtin float has
\* no itemsize attribute
itemsize(dtype_code) ==
    IF np_dtypes[dtype_code] = "float" THEN [err |-> "AttributeError", val |-> 0]
    ELSE [err |-> "none", val |-> dtypes[dtype_code]]

\* the dtype the builders are constructed with: int32
BuilderDtypes == {4}

\* the dtypes an index writer is driven with directly: int32 and int64
WriterDtypes == {4, 5}

\* the pad value the builders are constructed with
PadId == 0

HDR_MAGIC == "MMIDRET"

\* number of fields in front of the arrays of an index file
HeaderFields == 7

Tokens == 0..MaxTok

\* a token array of length n: consecutive token values starting after s
TokensOf(n, s) == [k \in 1..n |-> (s + k) % (MaxTok + 1)]

\* the token arrays handed to add_item, one of every length; some hold
\* tokens equal to the pad value
Docs == {TokensOf(n, n) : n \in 0..MaxLen}

RECURSIVE Repeat(_, _)
Repeat(v, n) == IF n <= 0 THEN <<>> ELSE <<v>> \o Repeat(v, n - 1)

RECURSIVE Concat(_)
Concat(ss) == IF ss = <<>> THEN <<>> ELSE Head(ss) \o Concat(Tail(ss))

(* ---------------------------- index writer ------------------------------ *)

\* _Writer.__enter__: the file holds magic, version and dtype code
WriterEnter(dtype) == <<HDR_MAGIC, 1, dtype>>

\* _Writer._get_pointers: the loop from document k on, at running address
RECURSIVE PointersFrom(_, _, _, _, _, _)
PointersFrom(sizes, chunk_size, dtype_size, retrieval_db, k, address) ==
    IF k > Len(sizes) THEN <<>>
    ELSE LET a1 == address + sizes[k] * dtype_size
             a2 == IF retrieval_db THEN a1 + chunk_size * dtype_size ELSE a1
         IN  <<address>> \o
             PointersFrom(sizes, chunk_size, dtype_size, retrieval_db, k + 1, a2)

\* variant: the reserved chunk is never added to the running address
get_pointers_no_reserve(sizes, chunk_size, dtype_size, retrieval_db) ==
    PointersFrom(sizes, chunk_size, dtype_size, FALSE, 1, 0)

get_pointers(sizes, chunk_size, dtype_size, retrieval_db) ==
    PointersFrom(sizes, chunk_size, dtype_size, retrieval_db, 1, 0)

\* variant: consecutive chunks are chunk_size bytes apart
ChunkRun_unscaled(address, n, chunk_size, dtype_size) ==
    [j \in 1..n |-> address + (j - 1) * chunk_size]

\* the inner loop of _get_chunk_id_and_address: n addresses from address on
ChunkRun(address, n, chunk_size, dtype_size) ==
    [j \in 1..n |-> address + (j - 1) * chunk_size * dtype_size]

\* _Writer._get_chunk_id_and_address: the loop from document k on
RECURSIVE ChunksFrom(_, _, _, _, _, _, _)
ChunksFrom(sizes, chunk_size, dtype_size, retrieval_db, k, last_id, address) ==
    IF k > Len(sizes) THEN [err |-> "none", chunk_ids |-> <<>>, pointers |-> <<>>]
    ELSE IF sizes[k] % chunk_size # 0
    THEN [err |-> "ValueError", chunk_ids |-> <<>>, pointers |-> <<>>]
    ELSE LET num_of_chunks == sizes[k] \div chunk_size
             a1 == address + num_of_chunks * chunk_size * dtype_size
             a2 == IF retrieval_db THEN a1 + chunk_size * dtype_size ELSE a1
             rest == ChunksFrom(sizes, chunk_size, dtype_size, retrieval_db,
                                k + 1, last_id + num_of_chunks, a2)
         IN  IF rest.err # "none" THEN rest
             ELSE [err |-> "none",
                   chunk_ids |-> <<last_id>> \o rest.chunk_ids,
                   pointers |-> ChunkRun(address, num_of_chunks, chunk_size, dtype_size)
                                \o rest.pointers]

\* variant: the running chunk counter starts at 1
get_chunk_id_and_address_from_one(sizes, chunk_size, dtype_size, retrieval_db) ==
    ChunksFrom(sizes, chunk_size, dtype_size, retrieval_db, 1, 1, 0)

get_chunk_id_and_address(sizes, chunk_size, dtype_size, retrieval_db) ==
    ChunksFrom(sizes, chunk_size, dtype_size, retrieval_db, 1, 0, 0)

\* variant: a size that is not a multiple of chunk_size is rounded down
write_rounding(sizes, chunk_size, dtype, retrieval_db) ==
    LET r == [k \in DOMAIN sizes |-> sizes[k] - (sizes[k] % chunk_size)]
        pointers == get_pointers(r, chunk_size, dtypes[dtype], retrieval_db)
        c == get_chunk_id_and_address(r, chunk_size, dtypes[dtype], retrieval_db)
    IN  [err |-> "none",
         fields |-> <<Len(r), chunk_size, Len(c.pointers),
                      IF retrieval_db THEN 1 ELSE 0>>
                    \o r \o pointers \o c.chunk_ids \o c.pointers]

\* variant: the number of documents and chunk_size are written before the
\* sizes are checked
write_counts_first(sizes, chunk_size, dtype, retrieval_db) ==
    LET pointers == get_pointers(sizes, chunk_size, dtypes[dtype], retrieval_db)
        c == get_chunk_id_and_address(sizes, chunk_size, dtypes[dtype], retrieval_db)
    IN  IF c.err # "none"
        THEN [err |-> c.err, fields |-> <<Len(sizes), chunk_size>>]
        ELSE [err |-> "none",
              fields |-> <<Len(sizes), chunk_size, Len(c.pointers),
                           IF retrieval_db THEN 1 ELSE 0>>
                         \o sizes \o pointers \o c.chunk_ids \o c.pointers]

\* _Writer.write: the fields appended to the file, or the error raised
\* before anything is appended
write(sizes, chunk_size, dtype, retrieval_db) ==
    LET pointers == get_pointers(sizes, chunk_size, dtypes[dtype], retrieval_db)
        c == get_chunk_id_and_address(sizes, chunk_size, dtypes[dtype], retrieval_db)
    IN  IF itemsize(dtype).err # "none"
        THEN [err |-> itemsize(dtype).err, fields |-> <<>>]
        ELSE IF c.err # "none" THEN [err |-> c.err, fields |-> <<>>]
        ELSE [err |-> "none",
              fields |-> <<Len(sizes), chunk_size, Len(c.pointers),
                           IF retrieval_db THEN 1 ELSE 0>>
                         \o sizes \o pointers \o c.chunk_ids \o c.pointers]

(* ---------------------------- index reader ------------------------------ *)

\* variant: the arrays are read one field further on
IndexArray_shifted(f, count, offset) ==
    SubSeq(f, offset + 2,
           IF offset + 1 + count > Len(f) THEN Len(f) ELSE offset + 1 + count)

\* np.frombuffer over the index file: count fields after offset fields, as
\* far as the file holds them
IndexArray(f, count, offset) ==
    SubSeq(f, offset + 1, IF offset + count > Len(f) THEN Len(f) ELSE offset + count)

NoIndex(e) ==
    [err |-> e, dtype |-> 0, dtype_size |-> 0, len |-> 0, chunk_size |-> 0,
     num_chunks |-> 0, retrieval_db |-> FALSE, sizes |-> <<>>, pointers |-> <<>>,
     chunk_id_start |-> <<>>, chunk_address |-> <<>>]

\* variant: the arrays are taken from the file however short it is
arrays_fit_any(f, n, nc) == TRUE

\* Index.__init__: np.frombuffer refuses a buffer smaller than the sizes,
\* pointers, chunk_id_start and chunk_address arrays the header announces
arrays_fit(f, n, nc) == Len(f) >= HeaderFields + 3 * n + nc

\* Index.__init__: the reader of an index file, or the error raised
IndexOpen(f) ==
    IF Len(f) = 0 THEN NoIndex("FileNotFoundError")
    ELSE IF f[1] # HDR_MAGIC THEN NoIndex("AssertionError")
    ELSE IF Len(f) < 2 THEN NoIndex("struct.error")
    ELSE IF f[2] # 1 THEN NoIndex("AssertionError")
    ELSE IF Len(f) < 3 THEN NoIndex("struct.error")
    ELSE IF f[3] \notin DOMAIN dtypes THEN NoIndex("KeyError")
    ELSE IF itemsize(f[3]).err # "none" THEN NoIndex(itemsize(f[3]).err)
    ELSE IF Len(f) < HeaderFields THEN NoIndex("struct.error")
    ELSE LET n == f[4]
             nc == f[6]
             offset == HeaderFields
         IN  IF ~arrays_fit(f, n, nc) THEN NoIndex("ValueError")
             ELSE [err |-> "none",
                   dtype |-> f[3],
                   dtype_size |-> itemsize(f[3]).val,
                   len |-> n,
                   chunk_size |-> f[5],
                   num_chunks |-> nc,
                   retrieval_db |-> (f[7] # 0),
                   sizes |-> IndexArray(f, n, offset),
                   pointers |-> IndexArray(f, n, offset + n),
                   chunk_id_start |-> IndexArray(f, n, offset + n + n),
                   chunk_address |-> IndexArray(f, nc, offset + n + n + n)]

(* ------------------------------- builder -------------------------------- *)

\* MMapRetrievalIndexedDatasetBuilder.__init__
NewBuilder(chunk_size, pad_id, retrieval_db, dtype) ==
    [dtype |-> dtype, chunk_size |-> chunk_size, sizes |-> <<>>,
     retrieval_db |-> retrieval_db, pad_id |-> pad_id, closed |-> FALSE]

\* variant: a whole chunk of padding whatever the length
padded_size_whole(n, chunk_size) == chunk_size

\* variant: no padding for a length that is a multiple of chunk_size
padded_size_exact(n, chunk_size) == (chunk_size - (n % chunk_size)) % chunk_size

\* add_item: padded_size = chunk_size - (len(np_array) % chunk_size)
padded_size(n, chunk_size) == chunk_size - (n % chunk_size)

\* add_item: data_size = np_array.size + padded_size
data_size(n, chunk_size) == n + padded_size(n, chunk_size)

\* variant: the reserved chunk of retrieval-db mode is not appended
np_pad_no_reserve(tensor, chunk_size, pad_id, retrieval_db) ==
    tensor \o Repeat(pad_id, padded_size(Len(tensor), chunk_size))

\* add_item: the array written to the data file (np.pad on the right)
np_pad(tensor, chunk_size, pad_id, retrieval_db) ==
    LET p == padded_size(Len(tensor), chunk_size)
        q == IF retrieval_db THEN p + chunk_size ELSE p
    IN  tensor \o Repeat(pad_id, q)

\* the number of sizes the builders hold together
RECURSIVE Recorded(_)
Recorded(bs) ==
    IF bs = {} THEN 0
    ELSE LET b == CHOOSE c \in bs : TRUE
         IN  Len(builder[b].sizes) + Recorded(bs \ {b})

\* the outcome of the most recent call: operation, corpus, argument,
\* error raised ("none" when it returned) and the elements returned
Call(op, b, arg, err, out) ==
    [op |-> op, b |-> b, arg |-> arg, err |-> err, out |-> out]

\* MMapRetrievalIndexedDatasetBuilder.add_item
add_item(b, tensor) ==
    LET s == builder[b] IN
    /\ Recorded(Builders) < MaxDocs
    /\ IF s.closed
       THEN \* the write to the closed data file raises before the size
            \* is appended
            /\ last' = Call("add_item", b, Len(tensor), "ValueError", <<>>)
            /\ UNCHANGED <<builder, bin, idx, items, writer, proc>>
       ELSE /\ bin' = [bin EXCEPT ![b] =
                         @ \o np_pad(tensor, s.chunk_size, s.pad_id, s.retrieval_db)]
            /\ builder' = [builder EXCEPT ![b].sizes =
                             Append(@, data_size(Len(tensor), s.chunk_size))]
            /\ items' = [items EXCEPT ![b] =
                           Append(@, [tokens |-> tensor, at |-> Len(bin[b]),
                                      len |-> Len(bin'[b]) - Len(bin[b]),
                                      by |-> "add_item"])]
            /\ last' = Call("add_item", b, Len(tensor), "none", <<>>)
            /\ UNCHANGED <<idx, writer, proc>>

\* variant: the other index's pointers are appended instead of its sizes
merged_sizes_from_pointers(sizes, index) == sizes \o index.pointers

\* merge_file_: the sizes appended to the builder's list
merged_sizes(sizes, index) == sizes \o index.sizes

\* merge_file_: the data file after shutil.copyfileobj
merged_data(data, other) == data \o other

\* variant: every other corpus is taken, whatever its element type
same_dtype_any(index, s) == TRUE

\* merge_file_: assert index.dtype == self._dtype
same_dtype(index, s) == index.dtype = s.dtype

\* MMapRetrievalIndexedDatasetBuilder.merge_file_
merge_file_(b, another_file) ==
    LET s == builder[b]
        index == IndexOpen(idx[another_file])
    IN
    /\ Recorded(Builders) + index.len <= MaxDocs
    /\ IF index.err # "none"
       THEN /\ last' = Call("merge_file_", b, another_file, index.err, <<>>)
            /\ UNCHANGED <<builder, bin, idx, items, writer, proc>>
       ELSE IF ~same_dtype(index, s)
       THEN /\ last' = Call("merge_file_", b, another_file, "AssertionError", <<>>)
            /\ UNCHANGED <<builder, bin, idx, items, writer, proc>>
       ELSE /\ builder' = [builder EXCEPT ![b].sizes = merged_sizes(@, index)]
            /\ items' = [items EXCEPT ![b] = @ \o
                           [k \in DOMAIN items[another_file] |->
                              [items[another_file][k] EXCEPT
                                 !.at = @ + Len(bin[b]), !.by = "merge_file_"]]]
            /\ IF bin[another_file] = <<>>
               THEN \* nothing is read, so nothing is written
                    /\ last' = Call("merge_file_", b, another_file, "none", <<>>)
                    /\ UNCHANGED <<bin, idx, writer, proc>>
               ELSE IF s.closed
               THEN \* the sizes are appended; the copy into the closed
                    \* data file raises
                    /\ last' = Call("merge_file_", b, another_file, "ValueError", <<>>)
                    /\ UNCHANGED <<bin, idx, writer, proc>>
               ELSE /\ bin' = [bin EXCEPT ![b] = merged_data(@, bin[another_file])]
                    /\ last' = Call("merge_file_", b, another_file, "none", <<>>)
                    /\ UNCHANGED <<idx, writer, proc>>

\* the index file left by Index.writer(...) and index.write(sizes, chunk_size)
IndexFile(sizes, chunk_size, dtype, retrieval_db) ==
    WriterEnter(dtype) \o write(sizes, chunk_size, dtype, retrieval_db).fields

\* MMapRetrievalIndexedDatasetBuilder.finalize
finalize(b) ==
    LET s == builder[b]
        w == write(s.sizes, s.chunk_size, s.dtype, s.retrieval_db)
    IN
    /\ builder' = [builder EXCEPT ![b].closed = TRUE]
    /\ idx' = [idx EXCEPT ![b] =
                 IndexFile(s.sizes, s.chunk_size, s.dtype, s.retrieval_db)]
    /\ last' = Call("finalize", b, 0, w.err, <<>>)
    /\ UNCHANGED <<bin, items, writer, proc>>

(* -------------------------------- store --------------------------------- *)

\* indexing a numpy array with an integer: negative ids count from the end
NpIndex(arr, i) ==
    IF 0 <= i /\ i < Len(arr) THEN [err |-> "none", val |-> arr[i + 1]]
    ELSE IF -Len(arr) <= i /\ i < 0 THEN [err |-> "none", val |-> arr[Len(arr) + i + 1]]
    ELSE [err |-> "IndexError", val |-> 0]

\* np.frombuffer(buf, dtype, count, offset) over the data file
frombuffer(buf, dtype_size, count, offset) ==
    LET ts == Len(buf) * dtype_size
        n  == IF count < 0 THEN (ts - offset) \div dtype_size ELSE count
        e  == offset \div dtype_size
    IN  IF offset < 0 \/ offset > ts THEN [err |-> "ValueError", out |-> <<>>]
        ELSE IF count >= 0 /\ ts - offset < count * dtype_size
        THEN [err |-> "ValueError", out |-> <<>>]
        ELSE IF offset % dtype_size # 0 THEN [err |-> "Misaligned", out |-> <<>>]
        ELSE [err |-> "none", out |-> SubSeq(buf, e + 1, e + n)]

\* MMapRetrievalIndexedDataset._do_init: the index reader and the mapped
\* data file (np.memmap refuses an empty file)
StoreOpen(p) ==
    LET index == IndexOpen(idx[p])
    IN  IF index.err # "none" THEN [err |-> index.err, index |-> index, buf |-> <<>>]
        ELSE IF bin[p] = <<>> THEN [err |-> "ValueError", index |-> index, buf |-> <<>>]
        ELSE [err |-> "none", index |-> index, buf |-> bin[p]]

\* Index.__getitem__
IndexGetItem(index, i) ==
    LET p == NpIndex(index.pointers, i)
        s == NpIndex(index.sizes, i)
    IN  [err |-> p.err, ptr |-> p.val, size |-> s.val]

\* variant: in retrieval-db mode the default length runs over the reserved
\* block as well
get_with_reserve(store, i, offset, length) ==
    LET e == IndexGetItem(store.index, i)
        extra == IF store.index.retrieval_db THEN store.index.chunk_size ELSE 0
        len == IF length < 0 THEN e.size + extra - offset ELSE length
        ptr == e.ptr + offset * store.index.dtype_size
    IN  IF e.err # "none" THEN [err |-> e.err, out |-> <<>>]
        ELSE frombuffer(store.buf, store.index.dtype_size, len, ptr)

\* variant: the view starts at the beginning of the document whatever the
\* offset
get_from_start(store, i, offset, length) ==
    LET e == IndexGetItem(store.index, i)
        len == IF length < 0 THEN e.size - offset ELSE length
    IN  IF e.err # "none" THEN [err |-> e.err, out |-> <<>>]
        ELSE frombuffer(store.buf, store.index.dtype_size, len, e.ptr)

\* MMapRetrievalIndexedDataset.get(idx, offset, length); length < 0 stands
\* for length=None
get(store, i, offset, length) ==
    LET e == IndexGetItem(store.index, i)
        len == IF length < 0 THEN e.size - offset ELSE length
        ptr == e.ptr + offset * store.index.dtype_size
    IN  IF e.err # "none" THEN [err |-> e.err, out |-> <<>>]
        ELSE frombuffer(store.buf, store.index.dtype_size, len, ptr)

\* variant: the chunk id is looked up among the document pointers
get_chunk_address_of_document(index, chunk_id) == NpIndex(index.pointers, chunk_id)

\* Index.get_chunk_address
get_chunk_address(index, chunk_id) == NpIndex(index.chunk_address, chunk_id)

\* variant: the view is two chunks long in both modes
chunk_view_size_doubled(index) == index.chunk_size * 2

\* get_chunk: the number of elements of the view of one chunk
chunk_view_size(index) ==
    IF index.retrieval_db THEN index.chunk_size * 2 ELSE index.chunk_size

\* MMapRetrievalIndexedDataset.get_chunk with an integer chunk_id
get_chunk(store, chunk_id) ==
    LET a == get_chunk_address(store.index, chunk_id)
    IN  IF a.err # "none" THEN [err |-> a.err, out |-> <<>>]
        ELSE frombuffer(store.buf, store.index.dtype_size,
                        chunk_view_size(store.index), a.val)

\* the ids a caller passes: every valid id, one below and one above
DocIds(p) == LET st == StoreOpen(p) IN
             IF st.err = "none" THEN -1..st.index.len ELSE {0}

ChunkIds(p) == LET st == StoreOpen(p) IN
               IF st.err = "none" THEN -1..st.index.num_chunks ELSE {0}

\* a caller opens the corpus p and calls get(i)
Get(p, i) ==
    LET st == StoreOpen(p)
        r == IF st.err # "none" THEN [err |-> st.err, out |-> <<>>]
             ELSE get(st, i, 0, -1)
    IN  /\ last' = Call("get", p, i, r.err, r.out)
        /\ UNCHANGED <<builder, bin, idx, items, writer, proc>>

\* a caller opens the corpus p and calls get_chunk(c)
GetChunk(p, c) ==
    LET st == StoreOpen(p)
        r == IF st.err # "none" THEN [err |-> st.err, out |-> <<>>]
             ELSE get_chunk(st, c)
    IN  /\ last' = Call("get_chunk", p, c, r.err, r.out)
        /\ UNCHANGED <<builder, bin, idx, items, writer, proc>>

(* ------------------------------- process -------------------------------- *)

\* the store objects a reading process may hold at once; a store and the
\* Index it constructs share one identity
Insts == {1, 2}

\* @lru_cache(maxsize=8) on Index.__getitem__
maxsize == 8

\* no object at this identity
FreeInst ==
    [state |-> "free", corpus |-> 0, at |-> 0, index_mmap |-> "never",
     data_mmap |-> "never", del_err |-> "none"]

\* a process that holds no store and has looked nothing up
NoProcess == [inst |-> [X \in Insts |-> FreeInst], cache |-> <<>>]

\* variant: the cache is keyed by the id alone
cache_key_by_id(X, i) == <<0, i>>

\* lru_cache: the key of a call of Index.__getitem__(self, i) is made of
\* both arguments, and an Index is hashed by identity
cache_key(X, i) == <<X, i>>

\* the position of a key in the cache, oldest use first; 0 when absent
CacheFind(cache, key) ==
    IF \E k \in DOMAIN cache : cache[k].key = key
    THEN CHOOSE k \in DOMAIN cache : cache[k].key = key
    ELSE 0

\* the cache without its entry at position k
CacheDrop(cache, k) ==
    [j \in 1..(Len(cache) - 1) |-> IF j < k THEN cache[j] ELSE cache[j + 1]]

\* lru_cache: a new entry displaces the least recently used one of a full cache
CacheInsert(cache, e) ==
    IF Len(cache) >= maxsize THEN Append(Tail(cache), e) ELSE Append(cache, e)

\* the Index X is referenced by an entry of the cache
Pinned(cache, X) == \E k \in DOMAIN cache : cache[k].owner = X

\* Index.__getitem__ behind lru_cache, called on the Index X: a hit returns
\* the stored pair and becomes the most recent entry; a miss calls the
\* function and stores its result, unless it raised
cached_getitem(cache, X, index, i) ==
    LET key == cache_key(X, i)
        k == CacheFind(cache, key)
        e == IndexGetItem(index, i)
    IN  IF k > 0
        THEN [err |-> "none", ptr |-> cache[k].ptr, size |-> cache[k].size,
              cache |-> Append(CacheDrop(cache, k), cache[k])]
        ELSE IF e.err # "none"
        THEN [err |-> e.err, ptr |-> 0, size |-> 0, cache |-> cache]
        ELSE [err |-> "none", ptr |-> e.ptr, size |-> e.size,
              cache |-> CacheInsert(cache, [key |-> key, owner |-> X,
                                            ptr |-> e.ptr, size |-> e.size])]

\* variant: the view starts at the beginning of the data file
get_at_from_start(store, e) ==
    IF e.err # "none" THEN [err |-> e.err, out |-> <<>>]
    ELSE frombuffer(store.buf, store.index.dtype_size, e.size, 0)

\* MMapRetrievalIndexedDataset.get(idx) given the pair self._index[idx]
\* returned
get_at(store, e) ==
    IF e.err # "none" THEN [err |-> e.err, out |-> <<>>]
    ELSE frombuffer(store.buf, store.index.dtype_size, e.size, e.ptr)

\* Index.__init__: np.memmap of the index file is reached once the header
\* has been read
index_mapped(index) == index.err \in {"none", "ValueError"}

\* Index.__del__ on an Index whose mapping state is m: the mapping is
\* closed, or the attribute that would hold it is missing
index_del(m) ==
    IF m = "never" THEN [err |-> "AttributeError", mmap |-> "never"]
    ELSE [err |-> "none", mmap |-> "released"]

\* MMapRetrievalIndexedDataset.__init__ at identity X on corpus p, and the
\* teardown of the objects of a construction that raised
store_init(X, p) ==
    LET st == StoreOpen(p)
        im == IF index_mapped(st.index) THEN "open" ELSE "never"
    IN  IF st.err = "none"
        THEN [state |-> "live", corpus |-> p, at |-> 0, index_mmap |-> "open",
              data_mmap |-> "open", del_err |-> "none"]
        ELSE \* __del__ of the store reads self._bin_buffer_mmap, which was
             \* never assigned; the Index is torn down with the store
             [state |-> "gone", corpus |-> p, at |-> 0,
              index_mmap |-> index_del(im).mmap,
              data_mmap |-> "never", del_err |-> "AttributeError"]

\* MMapRetrievalIndexedDataset.__del__ on a live store: the data mapping is
\* closed and the reference to the Index dropped; the Index is torn down
\* unless the cache still refers to it
store_del(r, pinned) ==
    IF pinned
    THEN [r EXCEPT !.state = "pinned", !.at = 0, !.data_mmap = "released"]
    ELSE [r EXCEPT !.state = "gone", !.at = 0, !.data_mmap = "released",
                   !.index_mmap = index_del(r.index_mmap).mmap]

\* the objects after the cache changed: an Index that only the cache kept
\* alive is torn down when its last entry is displaced
release_evicted(inst, cache) ==
    [X \in Insts |->
        IF inst[X].state = "pinned" /\ ~Pinned(cache, X)
        THEN [inst[X] EXCEPT !.state = "gone",
                             !.index_mmap = index_del(inst[X].index_mmap).mmap]
        ELSE inst[X]]

(* ---------------------------- specification ----------------------------- *)

\* no index writer is driven directly
IdleWriter ==
    [pc |-> "idle", dtype |-> 4, retrieval_db |-> FALSE, sizes |-> <<>>,
     chunk_size |-> 1, file |-> <<>>, err |-> "none"]

\* the builders are constructed with the same chunk_size, pad value,
\* retrieval_db flag and dtype; their files are empty
Init ==
    \E cs \in 1..MaxChunk, rdb \in BOOLEAN, dt \in BuilderDtypes :
        /\ builder = [b \in Builders |-> NewBuilder(cs, PadId, rdb, dt)]
        /\ bin = [b \in Builders |-> <<>>]
        /\ idx = [b \in Builders |-> <<>>]
        /\ items = [b \in Builders |-> <<>>]
        /\ last = Call("init", 0, 0, "none", <<>>)
        /\ proc = NoProcess
        /\ writer = IdleWriter

AddItem == \E b \in Builders, t \in Docs : add_item(b, t)

MergeFile == \E b \in Mergers : \E o \in Builders \ {b} : merge_file_(b, o)

Finalize == \E b \in Builders : finalize(b)

Next == AddItem \/ MergeFile \/ Finalize

\* the builders: add_item, merge_file_ and finalize in any order
Spec == Init /\ [][Next]_vars

\* the corpus the store is opened on
Stored == 1

AddStored == \E t \in Docs : add_item(Stored, t)

FinalizeStored == finalize(Stored)

GetDoc == \E i \in DocIds(Stored) : Get(Stored, i)

GetOneChunk == \E c \in ChunkIds(Stored) : GetChunk(Stored, c)

NextStore == AddStored \/ FinalizeStored \/ GetDoc \/ GetOneChunk

\* one corpus is built, finalized and read through a store
SpecStore == Init /\ [][NextStore]_vars

\* the size lists handed to the index writer: any sizes, aligned or not
RECURSIVE SizeLists(_)
SizeLists(n) ==
    IF n = 0 THEN {<<>>}
    ELSE LET shorter == SizeLists(n - 1)
         IN  shorter \cup {Append(l, z) : l \in {m \in shorter : Len(m) = n - 1},
                                           z \in 0..MaxWriteSize}

\* Index.writer(path, dtype, retrieval_db) has been entered: the header is
\* written, and write(sizes, chunk_size) is about to be called
InitWriter ==
    \E sizes \in SizeLists(MaxWriteDocs), cs \in 1..MaxChunk,
       rdb \in BOOLEAN, dt \in WriterDtypes :
        /\ writer = [pc |-> "entered", dtype |-> dt, retrieval_db |-> rdb,
                     sizes |-> sizes, chunk_size |-> cs,
                     file |-> WriterEnter(dt), err |-> "none"]
        /\ builder = [b \in Builders |-> NewBuilder(cs, PadId, rdb, 4)]
        /\ bin = [b \in Builders |-> <<>>]
        /\ idx = [b \in Builders |-> <<>>]
        /\ items = [b \in Builders |-> <<>>]
        /\ last = Call("init", 0, 0, "none", <<>>)
        /\ proc = NoProcess

\* _Writer.write followed by _Writer.__exit__
Write ==
    LET w == write(writer.sizes, writer.chunk_size, writer.dtype, writer.retrieval_db)
    IN  /\ writer.pc = "entered"
        /\ writer' = [writer EXCEPT !.pc = "exited",
                                    !.file = @ \o w.fields,
                                    !.err = w.err]
        /\ UNCHANGED <<builder, bin, idx, items, last, proc>>

NextWriter == Write

\* the index writer applied to a size list
SpecWriter == InitWriter /\ [][NextWriter]_vars

(* ------------------------- index writer claims -------------------------- *)

\* the writer returned normally
Written == writer.pc = "exited" /\ writer.err = "none"

\* the index the writer left on disk, as a reader sees it
WrittenIndex == IndexOpen(writer.file)

\* the chunk ids of document i (1-based) of an index
ChunkIdsOf(x, sizes, chunk_size, i) ==
    x.chunk_id_start[i] .. (x.chunk_id_start[i] + sizes[i] \div chunk_size - 1)

\* C2: for every size list the index writer accepts, chunk_id_start[0] = 0,
\* chunk_id_start[i+1] = chunk_id_start[i] + sizes[i]/chunk_size, num_chunks =
\* chunk_id_start[last] + sizes[last]/chunk_size, and the per-document chunk-id
\* ranges are pairwise disjoint, in document order and cover [0, num_chunks).
ChunkCoverage ==
    Written =>
        LET x == WrittenIndex
            sizes == writer.sizes
            cs == writer.chunk_size
            n == Len(sizes)
        IN  /\ x.err = "none"
            /\ x.len = n
            /\ Len(x.chunk_id_start) = n
            /\ n = 0 => x.num_chunks = 0
            /\ n > 0 => /\ x.chunk_id_start[1] = 0
                        /\ x.num_chunks = x.chunk_id_start[n] + sizes[n] \div cs
            /\ \A i \in 1..(n - 1) :
                   x.chunk_id_start[i + 1] = x.chunk_id_start[i] + sizes[i] \div cs
            /\ \A i \in 1..n : \A j \in (i + 1)..n :
                   \A c \in ChunkIdsOf(x, sizes, cs, i) :
                       \A d \in ChunkIdsOf(x, sizes, cs, j) : c < d
            /\ UNION {ChunkIdsOf(x, sizes, cs, i) : i \in 1..n} = 0..(x.num_chunks - 1)

\* C2 witness: an accepted list of two documents, the first with several chunks
ChunkCoverageWitness ==
    /\ Written
    /\ Len(writer.sizes) >= 2
    /\ writer.sizes[1] \div writer.chunk_size >= 2
    /\ writer.sizes[2] > 0

\* C4: in every index the writer produces, pointers[0] = 0 and
\* pointers[i+1] - pointers[i] = sizes[i] * dtype_size in plain mode and
\* (sizes[i] + chunk_size) * dtype_size in retrieval-db mode.
PointerSpacing ==
    Written =>
        LET x == WrittenIndex
            sizes == writer.sizes
            n == Len(sizes)
            extra == IF writer.retrieval_db THEN writer.chunk_size ELSE 0
        IN  /\ Len(x.pointers) = n
            /\ n > 0 => x.pointers[1] = 0
            /\ \A i \in 1..(n - 1) :
                   x.pointers[i + 1] - x.pointers[i]
                       = (sizes[i] + extra) * dtypes[writer.dtype]

\* C4 witness: a retrieval-db index of several non-empty documents
PointerSpacingWitness ==
    /\ Written
    /\ writer.retrieval_db
    /\ Len(writer.sizes) >= 2
    /\ writer.sizes[1] > 0

\* some size of the list is not a multiple of chunk_size
Unaligned == \E k \in DOMAIN writer.sizes : writer.sizes[k] % writer.chunk_size # 0

\* C5: write fails whenever some size, at any position, is not a multiple of
\* chunk_size: it raises, and nothing but the header is in the file (no size
\* was truncated or rounded).
AlignmentEnforced ==
    (writer.pc = "exited" /\ Unaligned) =>
        /\ writer.err # "none"
        /\ writer.file = WriterEnter(writer.dtype)

\* C5 witness: the writer was given an aligned size followed by an unaligned one
AlignmentEnforcedWitness ==
    /\ writer.pc = "exited"
    /\ Len(writer.sizes) >= 2
    /\ writer.sizes[1] > 0
    /\ writer.sizes[1] % writer.chunk_size = 0
    /\ writer.sizes[2] % writer.chunk_size # 0

(* ---------------------------- builder claims ---------------------------- *)

\* the step is a call of op on builder b
Called(op, b) == last'.op = op /\ last'.b = b

\* the elements a step appended to the data file of b
Appended(b) == SubSeq(bin'[b], Len(bin[b]) + 1, Len(bin'[b]))

\* the data file of one builder given add_item for each of the items
SingleBuilderData(its, s) ==
    Concat([k \in DOMAIN its |->
              np_pad(its[k].tokens, s.chunk_size, s.pad_id, s.retrieval_db)])

\* the size list of one builder given add_item for each of the items
SingleBuilderSizes(its, s) ==
    [k \in DOMAIN its |-> data_size(Len(its[k].tokens), s.chunk_size)]

\* C6: when a builder that received add_item calls and merge_file_ of a
\* finalized corpus of the same dtype, chunk_size, pad value and retrieval_db
\* is finalized, its data file and its index file (sizes, pointers,
\* chunk_id_start, chunk_address, num_chunks) are those of a single builder
\* given add_item for all the items in the same order.
MergeEquivalence ==
    [][\A b \in Builders :
         (~builder[b].closed /\ builder'[b].closed) =>
             LET s == builder[b] IN
             /\ bin'[b] = SingleBuilderData(items[b], s)
             /\ idx'[b] = IndexFile(SingleBuilderSizes(items[b], s),
                                    s.chunk_size, s.dtype, s.retrieval_db)
             /\ last'.err = "none"]_vars

\* C6 witness: builder 1 was finalized holding its own documents followed by
\* the merged documents and data of corpus 2
MergeEquivalenceWitness ==
    /\ last.op = "finalize" /\ last.b = 1 /\ last.err = "none"
    /\ \E k \in DOMAIN items[1] :
          /\ k > 1
          /\ \A j \in DOMAIN items[1] :
                items[1][j].by = (IF j < k THEN "add_item" ELSE "merge_file_")
    /\ bin[2] # <<>>
    /\ Len(bin[1]) > Len(bin[2])
    /\ SubSeq(bin[1], Len(bin[1]) - Len(bin[2]) + 1, Len(bin[1])) = bin[2]

\* C7: add_item on an open builder appends the tokens followed only by pad
\* values, records a multiple of chunk_size that is >= len(tokens), appends
\* exactly size elements in plain mode and size + chunk_size in retrieval-db
\* mode, and leaves the earlier sizes unchanged.
AddItemAppends ==
    [][\A b \in Builders :
         (Called("add_item", b) /\ ~builder[b].closed) =>
             LET s == builder[b]
                 t == items'[b][Len(items'[b])].tokens
                 size == builder'[b].sizes[Len(builder'[b].sizes)]
                 app == Appended(b)
             IN  /\ last'.err = "none"
                 /\ Len(items'[b]) = Len(items[b]) + 1
                 /\ Len(t) = last'.arg
                 /\ SubSeq(bin'[b], 1, Len(bin[b])) = bin[b]
                 /\ Len(app) >= Len(t)
                 /\ SubSeq(app, 1, Len(t)) = t
                 /\ \A k \in (Len(t) + 1)..Len(app) : app[k] = s.pad_id
                 /\ size % s.chunk_size = 0
                 /\ size >= Len(t)
                 /\ Len(app) = (IF s.retrieval_db THEN size + s.chunk_size ELSE size)
                 /\ Len(builder'[b].sizes) = Len(builder[b].sizes) + 1
                 /\ SubSeq(builder'[b].sizes, 1, Len(builder[b].sizes))
                        = builder[b].sizes]_vars

\* C7 witness: a second document was added to an open retrieval-db builder
AddItemAppendsWitness ==
    /\ last.op = "add_item" /\ last.err = "none"
    /\ builder[last.b].retrieval_db
    /\ Len(builder[last.b].sizes) >= 2
    /\ last.arg > 0

\* C8: the size recorded for a token array of length n is the smallest
\* multiple of chunk_size that is >= n: the alignment padding is fewer than
\* chunk_size elements, and a length that is a multiple of chunk_size is
\* recorded unchanged.
PadsToNextMultiple ==
    \A b \in Builders : \A k \in DOMAIN builder[b].sizes :
        LET n == Len(items[b][k].tokens)
            size == builder[b].sizes[k]
        IN  /\ size % builder[b].chunk_size = 0
            /\ size >= n
            /\ size - n < builder[b].chunk_size

\* C9: once a builder is finalized, every later add_item or merge_file_ call
\* on it fails and leaves its data file and its size list as they were.
FinalizedIsFrozen ==
    [][\A b \in Builders :
         (builder[b].closed /\ (Called("add_item", b) \/ Called("merge_file_", b))) =>
             /\ last'.err # "none"
             /\ bin'[b] = bin[b]
             /\ builder'[b].sizes = builder[b].sizes]_vars

(* ----------------------------- store claims ----------------------------- *)

\* the corpus is finalized and a store opens on it
Opened == StoreOpen(Stored).err = "none"

\* the positions (0-based, in elements) of the reserved block that add_item
\* wrote behind document k (1-based) of corpus b in retrieval-db mode
ReservedBlock(b, k) ==
    IF builder[b].retrieval_db
    THEN (items[b][k].at + items[b][k].len - builder[b].chunk_size)
            .. (items[b][k].at + items[b][k].len - 1)
    ELSE {}

\* the padded document k of corpus b: its tokens and its alignment padding
PaddedDoc(b, k) ==
    LET it == items[b][k]
        n == it.len - (IF builder[b].retrieval_db THEN builder[b].chunk_size ELSE 0)
    IN  it.tokens \o Repeat(builder[b].pad_id, n - Len(it.tokens))

\* C1: after finalize, get(i) of every document begins with the original tokens
\* in order, every element after them is the pad value, and in retrieval-db
\* mode the view holds no element of a reserved block.
RoundTrip ==
    (last.op = "get" /\ Opened /\ last.arg \in 0..(Len(items[last.b]) - 1)) =>
        LET b == last.b
            t == items[b][last.arg + 1].tokens
            out == last.out
            x == StoreOpen(b).index
            from == IndexGetItem(x, last.arg).ptr \div x.dtype_size
        IN  /\ last.err = "none"
            /\ Len(out) >= Len(t)
            /\ SubSeq(out, 1, Len(t)) = t
            /\ \A k \in (Len(t) + 1)..Len(out) : out[k] = builder[b].pad_id
            /\ \A k \in DOMAIN items[b] :
                   ReservedBlock(b, k) \cap (from..(from + Len(out) - 1)) = {}

\* C1 witness: get returned the second document of a retrieval-db corpus, a
\* document whose length is a multiple of chunk_size, after an empty document
RoundTripWitness ==
    /\ last.op = "get" /\ last.err = "none" /\ last.arg = 1
    /\ Opened
    /\ builder[last.b].retrieval_db
    /\ Len(items[last.b]) >= 2
    /\ Len(items[last.b][1].tokens) = 0
    /\ Len(items[last.b][2].tokens) > 0
    /\ Len(items[last.b][2].tokens) % builder[last.b].chunk_size = 0

\* the views get_chunk returns for the chunks of document i (0-based)
ChunkViews(st, i) ==
    LET x == st.index
        n == x.sizes[i + 1] \div x.chunk_size
    IN  [k \in 1..n |-> get_chunk(st, x.chunk_id_start[i + 1] + k - 1)]

\* C3 as claimed: in both modes, the views of get_chunk over the chunk ids of
\* document i, concatenated in order, are the padded document get(i), sizes[i]
\* elements.
ChunksConcatenateToDoc ==
    Opened =>
        LET st == StoreOpen(Stored) IN
        \A i \in 0..(st.index.len - 1) :
            LET v == ChunkViews(st, i)
                doc == get(st, i, 0, -1)
            IN  /\ doc.err = "none"
                /\ \A k \in DOMAIN v : v[k].err = "none"
                /\ Concat([k \in DOMAIN v |-> v[k].out]) = doc.out
                /\ Len(doc.out) = st.index.sizes[i + 1]

\* C3 amended: in plain mode the views of get_chunk over the chunk ids of
\* document i, concatenated in order, are the padded document get(i); in
\* retrieval-db mode every view is 2*chunk_size long and the first chunk_size
\* elements of the views, concatenated in order, are get(i).
ChunkHeadsConcatenateToDoc ==
    Opened =>
        LET st == StoreOpen(Stored)
            cs == st.index.chunk_size
        IN
        \A i \in 0..(st.index.len - 1) :
            LET v == ChunkViews(st, i)
                doc == get(st, i, 0, -1)
            IN  /\ doc.err = "none"
                /\ Len(doc.out) = st.index.sizes[i + 1]
                /\ doc.out = PaddedDoc(Stored, i + 1)
                /\ \A k \in DOMAIN v :
                       /\ v[k].err = "none"
                       /\ Len(v[k].out) = (IF st.index.retrieval_db THEN 2 * cs ELSE cs)
                /\ Concat([k \in DOMAIN v |-> SubSeq(v[k].out, 1, cs)]) = doc.out

\* C3 witness: get_chunk returned a chunk of a corpus of two documents, the
\* second of several chunks
ChunkHeadsWitness ==
    /\ last.op = "get_chunk" /\ last.err = "none"
    /\ Opened
    /\ StoreOpen(Stored).index.len >= 2
    /\ StoreOpen(Stored).index.sizes[2] \div StoreOpen(Stored).index.chunk_size >= 2
    /\ last.arg >= StoreOpen(Stored).index.chunk_id_start[2]

\* the document (1-based) whose chunk-id range holds chunk c
DocOfChunk(x, c) ==
    CHOOSE d \in 1..x.len :
        /\ x.chunk_id_start[d] <= c
        /\ c < x.chunk_id_start[d] + x.sizes[d] \div x.chunk_size

\* chunk k (0-based) of the padded document d of corpus b
ChunkOfDoc(b, d, k) ==
    SubSeq(PaddedDoc(b, d), k * builder[b].chunk_size + 1,
           (k + 1) * builder[b].chunk_size)

\* get_chunk returned the view of a valid chunk id
ChunkReturned ==
    /\ last.op = "get_chunk"
    /\ Opened
    /\ last.arg \in 0..(StoreOpen(Stored).index.num_chunks - 1)

\* C10 as claimed: get_chunk(c) returns the chunk_size elements of chunk c in
\* plain mode; in retrieval-db mode it returns 2*chunk_size elements, chunk c
\* followed by the reserved block of the chunk's document, for every chunk of
\* every document.
ChunkThenReservedBlock ==
    ChunkReturned =>
        LET b == last.b
            x == StoreOpen(b).index
            cs == x.chunk_size
            d == DocOfChunk(x, last.arg)
            k == last.arg - x.chunk_id_start[d]
            a == get_chunk_address(x, last.arg).val \div x.dtype_size
        IN  /\ last.err = "none"
            /\ ~x.retrieval_db => last.out = ChunkOfDoc(b, d, k)
            /\ x.retrieval_db =>
                  /\ Len(last.out) = 2 * cs
                  /\ SubSeq(last.out, 1, cs) = ChunkOfDoc(b, d, k)
                  /\ (a + cs)..(a + 2 * cs - 1) = ReservedBlock(b, d)

\* C10 amended: get_chunk(c) returns the chunk_size elements of chunk c in
\* plain mode; in retrieval-db mode it returns 2*chunk_size elements, chunk c
\* followed by the chunk_size elements stored right behind it: the reserved
\* block of the chunk's document when c is the last chunk of the document,
\* the next chunk of the same document otherwise.
ChunkThenFollowing ==
    ChunkReturned =>
        LET b == last.b
            x == StoreOpen(b).index
            cs == x.chunk_size
            d == DocOfChunk(x, last.arg)
            k == last.arg - x.chunk_id_start[d]
            n == x.sizes[d] \div cs
            a == get_chunk_address(x, last.arg).val \div x.dtype_size
        IN  /\ last.err = "none"
            /\ a = items[b][d].at + k * cs
            /\ ~x.retrieval_db => last.out = ChunkOfDoc(b, d, k)
            /\ x.retrieval_db =>
                  /\ Len(last.out) = 2 * cs
                  /\ SubSeq(last.out, 1, cs) = ChunkOfDoc(b, d, k)
                  /\ k = n - 1 => /\ (a + cs)..(a + 2 * cs - 1) = ReservedBlock(b, d)
                                  /\ SubSeq(last.out, cs + 1, 2 * cs)
                                         = Repeat(builder[b].pad_id, cs)
                  /\ k < n - 1 => SubSeq(last.out, cs + 1, 2 * cs)
                                      = ChunkOfDoc(b, d, k + 1)

\* C10 witness: get_chunk returned a chunk that is not the last one of its
\* document, in retrieval-db mode
ChunkThenFollowingWitness ==
    /\ ChunkReturned
    /\ last.err = "none"
    /\ StoreOpen(Stored).index.retrieval_db
    /\ LET x == StoreOpen(Stored).index
           d == DocOfChunk(x, last.arg)
       IN  /\ d >= 2
           /\ last.arg - x.chunk_id_start[d] < x.sizes[d] \div x.chunk_size - 1

(* --------------------------- ranges and parts --------------------------- *)

\* the largest number of documents of a corpus read by range
MaxReadDocs == 2

\* the steps of the slices a caller passes
Steps == {-1, 0, 1, 2}

\* slice(a, b).indices(n) for a positive step: one bound of the slice
SliceBound(v, n) ==
    IF v < 0 THEN (IF v + n < 0 THEN 0 ELSE v + n)
    ELSE IF v > n THEN n ELSE v

\* arr[a:b] on a numpy array
NpSlice(arr, a, b) ==
    SubSeq(arr, SliceBound(a, Len(arr)) + 1, SliceBound(b, Len(arr)))

\* itertools.accumulate: the running sums of a list
RECURSIVE AccumulateFrom(_, _, _)
AccumulateFrom(sizes, k, total) ==
    IF k > Len(sizes) THEN <<>>
    ELSE <<total + sizes[k]>> \o AccumulateFrom(sizes, k + 1, total + sizes[k])

accumulate(sizes) == AccumulateFrom(sizes, 1, 0)

\* sum of a list
sum(sizes) == IF sizes = <<>> THEN 0 ELSE accumulate(sizes)[Len(sizes)]

\* np.split(arr, cuts): the pieces of arr between consecutive cut positions
np_split(arr, cuts) ==
    LET edges == <<0>> \o cuts \o <<Len(arr)>>
    IN  [k \in 1..(Len(cuts) + 1) |-> NpSlice(arr, edges[k], edges[k + 1])]

\* variant: every step but 0 is served
contiguous_or_strided(step) == step # 0

\* __getitem__ and get_chunk: only slices of step 1 are served
contiguous(step) == step = 1

\* the outcome of a range access: the error raised and the views returned
Views(err, outs) == [err |-> err, outs |-> outs]

\* MMapRetrievalIndexedDataset.__getitem__ with slice(a, b, step)
getitem_slice(store, a, b, step) ==
    LET x == store.index
        start == SliceBound(a, x.len)
        stop == SliceBound(b, x.len)
        ptr == NpIndex(x.pointers, start)
        extra == IF x.retrieval_db THEN x.chunk_size ELSE 0
        picked == NpSlice(x.sizes, a, b)
        sizes == [k \in DOMAIN picked |-> picked[k] + extra]
        offsets == accumulate(sizes)
        total_size == sum(sizes)
        np_array == frombuffer(store.buf, x.dtype_size, total_size, ptr.val)
        sents == np_split(np_array.out, SubSeq(offsets, 1, Len(offsets) - 1))
    IN  IF ~contiguous(step) THEN Views("ValueError", <<>>)
        ELSE IF ptr.err # "none" THEN Views(ptr.err, <<>>)
        ELSE IF np_array.err # "none" THEN Views(np_array.err, <<>>)
        ELSE Views("none",
                   [k \in DOMAIN sents |->
                      SubSeq(sents[k], 1, Len(sents[k]) - extra)])

\* MMapRetrievalIndexedDataset.get_chunk with slice(a, b, step)
get_chunk_slice(store, a, b, step, force_no_padding) ==
    LET x == store.index
        start == SliceBound(a, x.num_chunks)
        stop == SliceBound(b, x.num_chunks)
        chunk_size == IF x.retrieval_db /\ ~force_no_padding
                      THEN x.chunk_size * 2 ELSE x.chunk_size
        ptr == get_chunk_address(x, start)
        last_address == get_chunk_address(x, stop - 1)
        end_address == last_address.val + chunk_size * x.dtype_size
        address == NpSlice(x.chunk_address, a, b)
        starting_pos == [k \in DOMAIN address |-> address[k] \div x.dtype_size]
        total_size == (end_address - ptr.val) \div x.dtype_size
        np_array == frombuffer(store.buf, x.dtype_size, total_size, ptr.val)
    IN  IF ~contiguous(step) THEN Views("ValueError", <<>>)
        ELSE IF ptr.err # "none" THEN Views(ptr.err, <<>>)
        ELSE IF last_address.err # "none" THEN Views(last_address.err, <<>>)
        ELSE IF np_array.err # "none" THEN Views(np_array.err, <<>>)
        ELSE IF starting_pos = <<>> THEN Views("IndexError", <<>>)
        ELSE Views("none",
                   [k \in DOMAIN starting_pos |->
                      LET pos == starting_pos[k] - starting_pos[1]
                      IN  NpSlice(np_array.out, pos, pos + chunk_size)])

\* Index.get_chunk_id
index_get_chunk_id(index, sentence_id, position) ==
    LET c == NpIndex(index.chunk_id_start, sentence_id)
    IN  [err |-> c.err, val |-> c.val + position \div index.chunk_size]

\* variant: the offset is not checked against chunk_size
get_chunk_id_unchecked(store, i, offset) ==
    index_get_chunk_id(store.index, i, offset)

\* MMapRetrievalIndexedDataset.get_chunk_id
get_chunk_id(store, i, offset) ==
    IF offset % store.index.chunk_size # 0 THEN [err |-> "AssertionError", val |-> 0]
    ELSE index_get_chunk_id(store.index, i, offset)

\* the bounds of the ranges a caller passes over n ids: every valid bound,
\* one below and one above
RangeBounds(n) == -1..(n + 1)

\* the number of documents and of chunks of the corpus p (0 when it does
\* not open)
DocCount(p) == LET st == StoreOpen(p) IN
               IF st.err = "none" THEN st.index.len ELSE 0

ChunkCount(p) == LET st == StoreOpen(p) IN
                 IF st.err = "none" THEN st.index.num_chunks ELSE 0

\* the offsets and lengths a caller passes for document i: everything up to
\* one element past the document and its reserved block
PartArgs(p, i) ==
    LET st == StoreOpen(p)
        e == IF st.err = "none" THEN IndexGetItem(st.index, i)
             ELSE [err |-> st.err, ptr |-> 0, size |-> 0]
        cs == IF st.err = "none" THEN st.index.chunk_size ELSE 0
    IN  IF e.err = "none" THEN 0..(e.size + cs + 1) ELSE 0..1

\* a caller opens the corpus p and calls get(i, offset, length); length -1
\* stands for length=None
GetPart(p, i, offset, length) ==
    LET st == StoreOpen(p)
        r == IF st.err # "none" THEN [err |-> st.err, out |-> <<>>]
             ELSE get(st, i, offset, length)
    IN  /\ last' = Call("get_part", p, <<i, offset, length>>, r.err, r.out)
        /\ UNCHANGED <<builder, bin, idx, items, writer, proc>>

\* a caller opens the corpus p and indexes the store with slice(a, b, step)
GetRange(p, a, b, step) ==
    LET st == StoreOpen(p)
        r == IF st.err # "none" THEN Views(st.err, <<>>)
             ELSE getitem_slice(st, a, b, step)
    IN  /\ last' = Call("getitem_slice", p, <<a, b, step>>, r.err, r.outs)
        /\ UNCHANGED <<builder, bin, idx, items, writer, proc>>

\* a caller opens the corpus p and calls get_chunk(slice(a, b, step),
\* force_no_padding)
GetChunkRange(p, a, b, step, force_no_padding) ==
    LET st == StoreOpen(p)
        r == IF st.err # "none" THEN Views(st.err, <<>>)
             ELSE get_chunk_slice(st, a, b, step, force_no_padding)
    IN  /\ last' = Call("get_chunk_slice", p, <<a, b, step, force_no_padding>>,
                        r.err, r.outs)
        /\ UNCHANGED <<builder, bin, idx, items, writer, proc>>

\* a caller opens the corpus p and calls get_chunk_id(i, offset)
GetChunkId(p, i, offset) ==
    LET st == StoreOpen(p)
        r == IF st.err # "none" THEN [err |-> st.err, val |-> 0]
             ELSE get_chunk_id(st, i, offset)
    IN  /\ last' = Call("get_chunk_id", p, <<i, offset>>, r.err, r.val)
        /\ UNCHANGED <<builder, bin, idx, items, writer, proc>>

\* the operations of the store that SpecRead drives
ReadOps == {"get_part", "getitem_slice", "get_chunk_slice", "get_chunk_id"}

\* the caller reads once after each step of the builder: a read changes no
\* file, so every read remains reachable on every corpus
ReadOnce == last.op \notin ReadOps

AddRead == /\ Recorded({Stored}) < MaxReadDocs
           /\ \E t \in Docs : add_item(Stored, t)

ReadPart ==
    /\ ReadOnce
    /\ \E i \in DocIds(Stored) :
        \E offset \in PartArgs(Stored, i) :
            \E length \in {-1} \cup PartArgs(Stored, i) :
                GetPart(Stored, i, offset, length)

ReadRange ==
    /\ ReadOnce
    /\ \E a \in RangeBounds(DocCount(Stored)), b \in RangeBounds(DocCount(Stored)),
       step \in Steps :
        GetRange(Stored, a, b, step)

ReadChunkRange ==
    /\ ReadOnce
    /\ \E a \in RangeBounds(ChunkCount(Stored)), b \in RangeBounds(ChunkCount(Stored)),
       step \in Steps, force_no_padding \in BOOLEAN :
        GetChunkRange(Stored, a, b, step, force_no_padding)

ReadChunkId ==
    /\ ReadOnce
    /\ \E i \in DocIds(Stored) :
        \E offset \in PartArgs(Stored, i) : GetChunkId(Stored, i, offset)

NextRead ==
    AddRead \/ FinalizeStored \/ ReadPart \/ ReadRange \/ ReadChunkRange
    \/ ReadChunkId

\* one corpus is built, finalized and read by range and by part
SpecRead == Init /\ [][NextRead]_vars

(* ----------------------------- range claims ----------------------------- *)

\* the store opened on the corpus that SpecRead builds
ReadStore == StoreOpen(Stored)

\* the view get_chunk(c) returns for an integer c, cut to chunk_size
\* elements when force_no_padding is set in retrieval-db mode
OneChunk(c, force_no_padding) ==
    LET x == ReadStore.index
        one == get_chunk(ReadStore, c).out
    IN  IF x.retrieval_db /\ force_no_padding THEN SubSeq(one, 1, x.chunk_size)
        ELSE one

\* the most recent call was get_chunk(slice(a, b)) with 0 <= a <= b <= num_chunks
ChunkRangeCalled ==
    /\ last.op = "get_chunk_slice"
    /\ Opened
    /\ last.arg[3] = 1
    /\ 0 <= last.arg[1]
    /\ last.arg[1] <= last.arg[2]
    /\ last.arg[2] <= ReadStore.index.num_chunks

\* C11: get_chunk(slice(a, b)) with 0 <= a <= b <= num_chunks returns b - a
\* views in chunk-id order, view k equal to get_chunk(a + k), cut to the first
\* chunk_size elements when force_no_padding is set in retrieval-db mode.
ChunkRangeMatches ==
    ChunkRangeCalled =>
        LET a == last.arg[1]
            b == last.arg[2]
        IN  /\ last.err = "none"
            /\ Len(last.out) = b - a
            /\ \A k \in 1..(b - a) :
                   last.out[k] = OneChunk(a + k - 1, last.arg[4])

\* the most recent call was store[slice(a, b)] with 0 <= a <= b <= num_documents
DocRangeCalled ==
    /\ last.op = "getitem_slice"
    /\ Opened
    /\ last.arg[3] = 1
    /\ 0 <= last.arg[1]
    /\ last.arg[1] <= last.arg[2]
    /\ last.arg[2] <= ReadStore.index.len

\* C12: store[slice(a, b)] with 0 <= a <= b <= num_documents, the empty range
\* included, returns b - a views in document order, view k equal to get(a + k).
DocRangeMatches ==
    DocRangeCalled =>
        LET a == last.arg[1]
            b == last.arg[2]
        IN  /\ last.err = "none"
            /\ Len(last.out) = b - a
            /\ \A k \in 1..(b - a) :
                   last.out[k] = get(ReadStore, a + k - 1, 0, -1).out

IdBoundsRejected ==
    /\ (last.op = "get" /\ Opened
        /\ last.arg \notin 0..(StoreOpen(Stored).index.len - 1)) =>
           last.err = "IndexError"
    /\ (last.op = "get_chunk" /\ Opened
        /\ last.arg \notin 0..(StoreOpen(Stored).index.num_chunks - 1)) =>
           last.err = "IndexError"

\* C15: get(d, offset, length) with offset > sizes[d] or offset + length >
\* sizes[d] fails; it returns no element of the reserved block or of another
\* document.
OffsetBoundsRejected ==
    (last.op = "get_part" /\ Opened
     /\ last.arg[1] \in 0..(ReadStore.index.len - 1)) =>
        LET size == ReadStore.index.sizes[last.arg[1] + 1]
            offset == last.arg[2]
            length == IF last.arg[3] = -1 THEN 0 ELSE last.arg[3]
        IN  (offset > size \/ offset + length > size) =>
                /\ last.err # "none"
                /\ last.out = <<>>

\* C16: a range request with a step other than 1 fails with ValueError, for
\* document ranges and for chunk ranges and for every start and stop, and
\* returns no view.
StridedRejected ==
    (last.op \in {"getitem_slice", "get_chunk_slice"} /\ Opened
     /\ last.arg[3] # 1) =>
        /\ last.err = "ValueError"
        /\ last.out = <<>>

\* C16 witness: a slice of step 2 over all the chunks of a corpus of two
\* documents was refused
StridedRejectedWitness ==
    /\ last.op = "get_chunk_slice"
    /\ Opened
    /\ ReadStore.index.len = 2
    /\ last.arg[1] = 0
    /\ last.arg[2] = ReadStore.index.num_chunks
    /\ last.arg[3] = 2
    /\ last.err = "ValueError"

\* C17: get_chunk_id(d, offset) fails when offset is not a multiple of
\* chunk_size; for an aligned offset with 0 <= offset < sizes[d] it returns
\* chunk_id_start[d] + offset / chunk_size, a chunk id of document d's own
\* range, whose chunk lies inside the document.
ChunkIdResolves ==
    (last.op = "get_chunk_id" /\ Opened) =>
        LET x == ReadStore.index
            d == last.arg[1]
            offset == last.arg[2]
        IN  /\ offset % x.chunk_size # 0 => last.err = "AssertionError"
            /\ (/\ d \in 0..(x.len - 1)
                /\ offset % x.chunk_size = 0
                /\ offset < x.sizes[d + 1]) =>
                   LET first == x.chunk_id_start[d + 1]
                       chunks == x.sizes[d + 1] \div x.chunk_size
                       at == get_chunk_address(x, last.out).val
                   IN  /\ last.err = "none"
                       /\ last.out = first + offset \div x.chunk_size
                       /\ last.out \in first..(first + chunks - 1)
                       /\ at = x.pointers[d + 1] + offset * x.dtype_size

\* C17 witness: the chunk id of the second chunk of the second document was
\* resolved
ChunkIdResolvesWitness ==
    /\ last.op = "get_chunk_id"
    /\ Opened
    /\ last.err = "none"
    /\ last.arg[1] = 1
    /\ last.arg[2] = ReadStore.index.chunk_size
    /\ last.arg[2] < ReadStore.index.sizes[2]
    /\ last.out = ReadStore.index.chunk_id_start[2] + 1

(* ------------------------ crashes and foreign files ---------------------- *)

\* the signatures found at an index path: this format's and that of the
\* plain memory-mapped indexed dataset
Magics == {HDR_MAGIC, "MMIDIDX"}

\* the versions found in the header
Versions == {1, 2}

\* the first k fields of the file f; cut inside its first field, the file
\* holds fewer bytes than the signature has
Truncated(f, k) == IF k = 0 THEN <<"">> ELSE SubSeq(f, 1, k)

\* finalize is interrupted while the index writer has written k fields
finalize_crash(b, k) ==
    LET s == builder[b]
    IN  /\ builder' = [builder EXCEPT ![b].closed = TRUE]
        /\ idx' = [idx EXCEPT ![b] =
                     Truncated(IndexFile(s.sizes, s.chunk_size, s.dtype,
                                         s.retrieval_db), k)]
        /\ last' = Call("finalize_crash", b, k, "crash", <<>>)
        /\ UNCHANGED <<bin, items, writer, proc>>

\* the index file of b carries another signature or version
foreign_index(b, magic, version) ==
    /\ Len(idx[b]) >= 2
    /\ idx' = [idx EXCEPT ![b] = [idx[b] EXCEPT ![1] = magic, ![2] = version]]
    /\ last' = Call("foreign_index", b, 0, "none", <<>>)
    /\ UNCHANGED <<builder, bin, items, writer, proc>>

\* a caller constructs Index(path) on the index file of p; the call records
\* the file it read, and the number of documents and the element width of
\* the reader
open_index(p) ==
    LET index == IndexOpen(idx[p])
    IN  /\ last' = Call("open_index", p, idx[p], index.err,
                        <<index.len, index.dtype_size>>)
        /\ UNCHANGED <<builder, bin, idx, items, writer, proc>>

FinalizeCrash ==
    \E k \in 0..(Len(IndexFile(builder[Stored].sizes, builder[Stored].chunk_size,
                               builder[Stored].dtype,
                               builder[Stored].retrieval_db)) - 1) :
        finalize_crash(Stored, k)

ForeignIndex == \E magic \in Magics, version \in Versions :
                    foreign_index(Stored, magic, version)

OpenIndex == open_index(Stored)

NextOpen == AddRead \/ FinalizeStored \/ FinalizeCrash \/ ForeignIndex \/ OpenIndex

\* one corpus is built and finalized, the index writer may be interrupted or
\* the index file replaced, and the index file is opened
SpecOpen == Init /\ [][NextOpen]_vars

\* the index file a completed finalize of the corpus leaves
CompleteIndex ==
    IndexFile(builder[Stored].sizes, builder[Stored].chunk_size,
              builder[Stored].dtype, builder[Stored].retrieval_db)

\* f is a strict prefix of the complete index file
StrictPrefix(f) ==
    /\ Len(f) < Len(CompleteIndex) \/ f = <<"">>
    /\ f = <<"">> \/ f = SubSeq(CompleteIndex, 1, Len(f))

\* C18: opening an index file fails, and returns no reader, when the
\* signature differs from the magic, when the version is not 1, or when the
\* file is a strict prefix of the file a completed write produces.
IndexOpenRejects ==
    (last.op = "open_index" /\ builder[last.b].closed) =>
        LET f == last.arg
        IN  (\/ StrictPrefix(f)
             \/ f[1] # HDR_MAGIC
             \/ f[2] # 1) =>
                /\ last.err # "none"
                /\ last.out = <<0, 0>>

\* C18 witness: the open of an index file cut inside its chunk_address array,
\* header and all other arrays complete, was refused
IndexOpenRejectsWitness ==
    /\ last.op = "open_index"
    /\ builder[last.b].closed
    /\ Len(builder[last.b].sizes) = 2
    /\ Len(last.arg) = Len(CompleteIndex) - 1
    /\ StrictPrefix(last.arg)
    /\ last.err = "ValueError"

(* ------------------------------ dtype codes ------------------------------ *)

\* the largest number of documents of a size list written under each
\* element type
MaxCodeDocs == 1

\* Index.writer(path, dtype, retrieval_db) is constructed with an element
\* type, and write(sizes, chunk_size) will be called with a size list
InitCode ==
    \E sizes \in SizeLists(MaxCodeDocs), cs \in 1..MaxChunk,
       rdb \in BOOLEAN, name \in DtypeNames :
        /\ writer = [pc |-> "constructed", name |-> name, dtype |-> 0,
                     retrieval_db |-> rdb, sizes |-> sizes, chunk_size |-> cs,
                     file |-> <<>>, err |-> "none"]
        /\ builder = [b \in Builders |-> NewBuilder(cs, PadId, rdb, 4)]
        /\ bin = [b \in Builders |-> <<>>]
        /\ idx = [b \in Builders |-> <<>>]
        /\ items = [b \in Builders |-> <<>>]
        /\ last = Call("init", 0, 0, "none", <<>>)
        /\ proc = NoProcess

\* _Writer.__enter__: the signature and the version are written, then the
\* code of the element type, unless code raises
Enter ==
    LET c == code(writer.name)
    IN  /\ writer.pc = "constructed"
        /\ writer' = IF c.err # "none"
                     THEN [writer EXCEPT !.pc = "failed", !.err = c.err,
                                         !.file = <<HDR_MAGIC, 1>>]
                     ELSE [writer EXCEPT !.pc = "entered", !.dtype = c.val,
                                         !.file = WriterEnter(c.val)]
        /\ UNCHANGED <<builder, bin, idx, items, last, proc>>

\* a caller constructs Index(path) on the file the writer left
OpenWritten ==
    LET index == IndexOpen(writer.file)
    IN  /\ writer.pc = "exited"
        /\ last' = Call("open_index", 0, writer.file, index.err,
                        <<index.len, index.dtype_size>>)
        /\ UNCHANGED <<builder, bin, idx, items, writer, proc>>

NextCode == Enter \/ Write \/ OpenWritten

\* the index writer under every element type, and the reader of its file
SpecCode == InitCode /\ [][NextCode]_vars

\* the byte widths of codes 1..8 as the format states them
StatedWidths == <<1, 1, 2, 4, 8, 4, 8, 2>>

\* C20: codes 1..8 denote element types of byte widths 1, 1, 2, 4, 8, 4, 8, 2;
\* the writer's code of the element type of code k is k, the writer lays the
\* file out and the reader derives dtype_size by that width, and the writer
\* rejects an element type outside the table.
DtypeCodeTable ==
    /\ writer.pc \in {"entered", "exited"} =>
           /\ writer.dtype \in 1..8
           /\ np_dtypes[writer.dtype] = writer.name
           /\ dtypes[writer.dtype] = StatedWidths[writer.dtype]
    /\ (writer.pc = "exited" /\ ~Unaligned) => writer.err = "none"
    /\ (writer.pc = "exited" /\ ~Unaligned /\ last.op = "open_index") =>
           /\ last.err = "none"
           /\ last.out[2] = StatedWidths[writer.dtype]
    /\ (writer.pc # "constructed"
        /\ \A k \in DOMAIN np_dtypes : np_dtypes[k] # writer.name) =>
           /\ writer.pc = "failed"
           /\ writer.err = "ValueError"

(* ----------------------------- mixed dtypes ------------------------------ *)

\* the element types of two builders that differ: int32 and int64, either way
MixedDtypes == {<<4, 5>>, <<5, 4>>}

\* the builders are constructed with the same chunk_size, pad value and
\* retrieval_db flag, and with different dtypes
InitMixed ==
    \E cs \in 1..MaxChunk, rdb \in BOOLEAN, dt \in MixedDtypes :
        /\ builder = [b \in Builders |-> NewBuilder(cs, PadId, rdb, dt[b])]
        /\ bin = [b \in Builders |-> <<>>]
        /\ idx = [b \in Builders |-> <<>>]
        /\ items = [b \in Builders |-> <<>>]
        /\ last = Call("init", 0, 0, "none", <<>>)
        /\ proc = NoProcess
        /\ writer = IdleWriter

\* builders of different dtypes: add_item, merge_file_ and finalize in any
\* order
SpecMixed == InitMixed /\ [][Next]_vars

\* C19: merge_file_(other) fails when the dtype of the other corpus's index
\* differs from the builder's dtype, and then the builder's size list and
\* data file are unchanged.
MergeRejectsDtype ==
    [][\A b \in Mergers : \A o \in Builders \ {b} :
         (/\ Called("merge_file_", b)
          /\ last'.arg = o
          /\ IndexOpen(idx[o]).err = "none"
          /\ IndexOpen(idx[o]).dtype # builder[b].dtype) =>
             /\ last'.err = "AssertionError"
             /\ builder'[b].sizes = builder[b].sizes
             /\ bin'[b] = bin[b]]_vars

\* C19 witness: an open builder holding a document refused to merge a
\* finalized corpus of another dtype that holds a document
MergeRejectsDtypeWitness ==
    /\ last.op = "merge_file_"
    /\ last.err = "AssertionError"
    /\ ~builder[last.b].closed
    /\ Len(builder[last.b].sizes) = 1
    /\ builder[last.arg].closed
    /\ IndexOpen(idx[last.arg]).len = 1
    /\ bin[last.arg] # <<>>
    /\ IndexOpen(idx[last.arg]).dtype # builder[last.b].dtype

(* ------------------------------- scenario -------------------------------- *)

\* the token arrays of the worked example
ScenarioDocs == {<<1, 2, 3, 4, 5>>, <<9, 9>>}

\* the builder of the worked example: chunk_size 4, pad value 0, no
\* retrieval db, int32
InitScenario ==
    /\ builder = [b \in Builders |-> NewBuilder(4, PadId, FALSE, 4)]
    /\ bin = [b \in Builders |-> <<>>]
    /\ idx = [b \in Builders |-> <<>>]
    /\ items = [b \in Builders |-> <<>>]
    /\ last = Call("init", 0, 0, "none", <<>>)
    /\ proc = NoProcess
    /\ writer = IdleWriter

AddScenario == \E t \in ScenarioDocs : add_item(Stored, t)

NextScenario == AddScenario \/ FinalizeStored \/ GetDoc \/ GetOneChunk

\* the worked example: its token arrays are added in any order, the corpus
\* is finalized and read
SpecScenario == InitScenario /\ [][NextScenario]_vars

\* add_item([1,2,3,4,5]), add_item([9,9]) and finalize have been called, in
\* that order and nothing else
ScenarioBuilt ==
    /\ Len(items[Stored]) = 2
    /\ items[Stored][1].tokens = <<1, 2, 3, 4, 5>>
    /\ items[Stored][2].tokens = <<9, 9>>
    /\ builder[Stored].closed

\* C21: with chunk_size 4, int32, pad value 0 and no retrieval db,
\* add_item([1,2,3,4,5]), add_item([9,9]) and finalize give 2 documents of
\* sizes [8, 4], 3 chunks, chunk_id_start [0, 2], chunk_address [0, 16, 32],
\* get(0) = [1,2,3,4,5,0,0,0] and chunk 2 = [9,9,0,0].
ScenarioValues ==
    ScenarioBuilt =>
        LET x == IndexOpen(idx[Stored])
        IN  /\ x.err = "none"
            /\ x.len = 2
            /\ x.sizes = <<8, 4>>
            /\ x.num_chunks = 3
            /\ x.chunk_id_start = <<0, 2>>
            /\ x.chunk_address = <<0, 16, 32>>
            /\ (last.op = "get" /\ last.arg = 0) =>
                   last.out = <<1, 2, 3, 4, 5, 0, 0, 0>>
            /\ (last.op = "get_chunk" /\ last.arg = 2) =>
                   last.out = <<9, 9, 0, 0>>

\* C21 witness: chunk 2 of the worked example was read
ScenarioValuesWitness ==
    /\ ScenarioBuilt
    /\ last.op = "get_chunk"
    /\ last.arg = 2
    /\ last.err = "none"
    /\ last.out = <<9, 9, 0, 0>>

(* --------------------------- index layout claims -------------------------- *)

\* C24: in every index the writer produces, the address of the k-th chunk of
\* document i is pointers[i] + k * chunk_size * dtype_size in both modes;
\* chunk_address is strictly increasing in chunk id, and in retrieval-db mode
\* no chunk address falls inside the reserved block of any document.
ChunkAddresses ==
    Written =>
        LET x == WrittenIndex
            sizes == writer.sizes
            cs == writer.chunk_size
            ds == dtypes[writer.dtype]
        IN  /\ \A i \in DOMAIN sizes : \A k \in 0..(sizes[i] \div cs - 1) :
                   x.chunk_address[x.chunk_id_start[i] + k + 1]
                       = x.pointers[i] + k * cs * ds
            /\ \A c \in 1..(x.num_chunks - 1) :
                   x.chunk_address[c] < x.chunk_address[c + 1]
            /\ writer.retrieval_db =>
                   \A c \in 1..x.num_chunks : \A i \in DOMAIN sizes :
                       x.chunk_address[c] \notin
                           (x.pointers[i] + sizes[i] * ds)
                               .. (x.pointers[i] + (sizes[i] + cs) * ds - 1)

\* C24 witness: a retrieval-db index of int64 elements whose first document
\* has several chunks and whose second document has a chunk
ChunkAddressesWitness ==
    /\ Written
    /\ writer.retrieval_db
    /\ writer.dtype = 5
    /\ Len(writer.sizes) >= 2
    /\ writer.sizes[1] \div writer.chunk_size >= 2
    /\ writer.sizes[2] \div writer.chunk_size >= 1

\* C25: for every size list the writer accepts, the file is the header
\* fields magic, version, dtype code, number of documents, chunk_size, number
\* of chunks, retrieval_db followed by sizes, pointers, chunk_id_start and
\* chunk_address with no gaps, and the reader opened on it returns the dtype,
\* the counts, the flag and the four arrays the writer computed.
IndexRoundTrip ==
    Written =>
        LET x == WrittenIndex
            sizes == writer.sizes
            cs == writer.chunk_size
            ds == dtypes[writer.dtype]
            pointers == get_pointers(sizes, cs, ds, writer.retrieval_db)
            c == get_chunk_id_and_address(sizes, cs, ds, writer.retrieval_db)
        IN  /\ writer.file =
                   <<HDR_MAGIC, 1, writer.dtype, Len(sizes), cs, Len(c.pointers),
                     IF writer.retrieval_db THEN 1 ELSE 0>>
                   \o sizes \o pointers \o c.chunk_ids \o c.pointers
            /\ x.err = "none"
            /\ x.dtype = writer.dtype
            /\ x.len = Len(sizes)
            /\ x.chunk_size = cs
            /\ x.num_chunks = Len(c.pointers)
            /\ x.retrieval_db = writer.retrieval_db
            /\ x.sizes = sizes
            /\ x.pointers = pointers
            /\ x.chunk_id_start = c.chunk_ids
            /\ x.chunk_address = c.pointers

\* C25 witness: an index of three documents with more chunks than documents
\* was written and opens
IndexRoundTripWitness ==
    /\ Written
    /\ WrittenIndex.err = "none"
    /\ Len(writer.sizes) = 3
    /\ WrittenIndex.num_chunks > 3
    /\ writer.sizes[1] # writer.sizes[2]

\* C26: a builder that receives only add_item calls, of any number and any
\* token lengths including 0, records only positive multiples of chunk_size,
\* so finalize completes without the alignment error and every document owns
\* at least one chunk.
AddOnlyAligned ==
    LET s == builder[Stored]
        x == StoreOpen(Stored).index
    IN  /\ \A k \in DOMAIN s.sizes :
               s.sizes[k] > 0 /\ s.sizes[k] % s.chunk_size = 0
        /\ last.op = "finalize" => last.err = "none"
        /\ Opened =>
               \A k \in 1..x.len : ChunkIdsOf(x, x.sizes, x.chunk_size, k) # {}

\* C26 witness: a corpus holding an empty token array and a token array of a
\* length that is a multiple of chunk_size has been finalized
AddOnlyAlignedWitness ==
    /\ last.op = "finalize"
    /\ last.err = "none"
    /\ Len(items[Stored]) = 2
    /\ items[Stored][1].tokens = <<>>
    /\ Len(items[Stored][2].tokens) = builder[Stored].chunk_size
    /\ Opened

(* ----------------------------- mixed configs ----------------------------- *)

\* the largest number of sizes the builders of different configurations hold
\* together
MaxConfigDocs == 2

\* the (chunk_size, retrieval_db) of the two builders: any two configurations
\* that differ
MixedConfigs ==
    {c \in ((1..MaxChunk) \X BOOLEAN) \X ((1..MaxChunk) \X BOOLEAN) : c[1] # c[2]}

\* the builders are constructed with the same pad value and dtype, and with
\* different chunk_size or retrieval_db flag
InitConfig ==
    \E c \in MixedConfigs :
        /\ builder = [b \in Builders |-> NewBuilder(c[b][1], PadId, c[b][2], 4)]
        /\ bin = [b \in Builders |-> <<>>]
        /\ idx = [b \in Builders |-> <<>>]
        /\ items = [b \in Builders |-> <<>>]
        /\ last = Call("init", 0, 0, "none", <<>>)
        /\ proc = NoProcess
        /\ writer = IdleWriter

AddConfig == /\ Recorded(Builders) < MaxConfigDocs
             /\ AddItem

OpenBuilt == \E b \in Builders : open_index(b)

NextConfig == AddConfig \/ MergeFile \/ Finalize \/ OpenBuilt

\* builders of different configurations: add_item, merge_file_ and finalize
\* in any order, and the index files are opened
SpecConfig == InitConfig /\ [][NextConfig]_vars

\* the number of elements the documents of b span in its data file
RECURSIVE Spanned(_, _)
Spanned(b, k) == IF k = 0 THEN 0 ELSE items[b][k].len + Spanned(b, k - 1)

\* finalize of b has just returned normally, and every add_item and
\* merge_file_ before it wrote its documents to the data file
FinalizedWhole(b) ==
    /\ last.op = "finalize"
    /\ last.b = b
    /\ last.err = "none"
    /\ Len(items[b]) = Len(builder[b].sizes)
    /\ Spanned(b, Len(items[b])) = Len(bin[b])

\* C27: after add_item and successful merge_file_ calls, merged corpora
\* possibly built with another chunk_size or retrieval_db flag, and a
\* successful finalize, pointers[i] is the byte offset at which document i
\* begins in the data file, and the last pointer plus the span of the last
\* document is the length of the data file.
PointersMatchData ==
    \A b \in Builders :
        FinalizedWhole(b) =>
            LET x == IndexOpen(idx[b])
                n == Len(items[b])
            IN  /\ x.err = "none"
                /\ x.len = n
                /\ \A k \in 1..n : x.pointers[k] = items[b][k].at * x.dtype_size
                /\ n > 0 => x.pointers[n] + items[b][n].len * x.dtype_size
                                = Len(bin[b]) * x.dtype_size

\* C28: when finalize fails on a size that is not a multiple of chunk_size,
\* the data file is closed, the index file holds the magic, the version and
\* the dtype code and nothing else, and a later open of that index fails.
FailedFinalize ==
    /\ (last.op = "finalize" /\ last.err = "ValueError") =>
           /\ builder[last.b].closed
           /\ idx[last.b] = <<HDR_MAGIC, 1, builder[last.b].dtype>>
    /\ (last.op = "open_index" /\ Len(last.arg) = 3) => last.err # "none"

\* C28 witness: the index file left by a finalize that failed on an unaligned
\* merged size was opened, and the open failed
FailedFinalizeWitness ==
    /\ last.op = "open_index"
    /\ last.err = "struct.error"
    /\ last.arg = <<HDR_MAGIC, 1, builder[last.b].dtype>>
    /\ builder[last.b].closed
    /\ \E k \in DOMAIN builder[last.b].sizes :
           builder[last.b].sizes[k] % builder[last.b].chunk_size # 0

(* ------------------------------ wide sizes ------------------------------- *)

\* the largest number of documents of an index of wide documents
MaxWideDocs == 3

\* sizes of wide documents are counted in units of 2^28 elements, and so is
\* chunk_size: 2^31 is 8 units, and a 32-bit signed integer holds -8 units
\* up to just below 8 units
Int32Half == 8

\* the value a 32-bit signed integer holds after an addition that gave v
np_int32(v) == ((v + Int32Half) % (2 * Int32Half)) - Int32Half

\* itertools.accumulate over an array of np.int32: every running sum is an
\* np.int32
RECURSIVE AccumulateInt32From(_, _, _)
AccumulateInt32From(sizes, k, total) ==
    IF k > Len(sizes) THEN <<>>
    ELSE LET t == np_int32(total + sizes[k])
         IN  <<t>> \o AccumulateInt32From(sizes, k + 1, t)

accumulate_int32(sizes) == AccumulateInt32From(sizes, 1, 0)

\* __getitem__ with slice(a, b): the sizes of the range, the split offsets
\* and the total number of elements. The array of sizes plus chunk_size is an
\* int32 array, the offsets are np.int32 sums, and sum() starts from the
\* Python integer 0 and adds in 64 bits
range_extents(index_sizes, chunk_size, retrieval_db, a, b) ==
    LET picked == NpSlice(index_sizes, a, b)
        sizes == [k \in DOMAIN picked |->
                    IF retrieval_db THEN np_int32(picked[k] + chunk_size)
                    ELSE picked[k]]
    IN  [sizes |-> sizes,
         offsets |-> accumulate_int32(sizes),
         total_size |-> sum(sizes)]

\* the size lists of wide documents: every size fits 32 bits
RECURSIVE WideLists(_)
WideLists(n) ==
    IF n = 0 THEN {<<>>}
    ELSE LET shorter == WideLists(n - 1)
         IN  shorter \cup {Append(l, z) : l \in {m \in shorter : Len(m) = n - 1},
                                           z \in 1..(Int32Half - 1)}

\* an index of wide documents has been opened: its sizes, its chunk_size of
\* one unit and its flag; the data file is not represented
InitWide ==
    \E sizes \in WideLists(MaxWideDocs), rdb \in BOOLEAN :
        /\ writer = [pc |-> "opened", dtype |-> 1, retrieval_db |-> rdb,
                     sizes |-> sizes, chunk_size |-> 1, file |-> <<>>,
                     err |-> "none"]
        /\ builder = [b \in Builders |-> NewBuilder(1, PadId, rdb, 1)]
        /\ bin = [b \in Builders |-> <<>>]
        /\ idx = [b \in Builders |-> <<>>]
        /\ items = [b \in Builders |-> <<>>]
        /\ last = Call("init", 0, 0, "none", <<>>)
        /\ proc = NoProcess

\* a caller indexes the store with slice(a, b): the sizes, offsets and total
\* that __getitem__ computes
RangeWide(a, b) ==
    LET r == range_extents(writer.sizes, writer.chunk_size, writer.retrieval_db, a, b)
    IN  /\ last' = Call("range_extents", 0, <<a, b>>, "none",
                        <<r.offsets, r.total_size>>)
        /\ UNCHANGED <<builder, bin, idx, items, writer, proc>>

NextWide == \E a \in 0..Len(writer.sizes), b \in 0..Len(writer.sizes) :
                a < b /\ RangeWide(a, b)

\* range access over an index of wide documents
SpecWide == InitWide /\ [][NextWide]_vars

\* the sizes of the range of the most recent call, with chunk_size added in
\* retrieval-db mode, as mathematical integers
WideSizes ==
    LET picked == NpSlice(writer.sizes, last.arg[1], last.arg[2])
    IN  [k \in DOMAIN picked |->
           picked[k] + (IF writer.retrieval_db THEN writer.chunk_size ELSE 0)]

\* C30: for every contiguous document range whose sizes each fit 32 bits, the
\* cumulative split offsets and the total element count that range access
\* computes are the exact sums of the sizes (plus chunk_size per document in
\* retrieval-db mode), also when a sum exceeds 2^31 - 1.
RangeSumsExact ==
    last.op = "range_extents" =>
        /\ last.out[1] = accumulate(WideSizes)
        /\ last.out[2] = sum(WideSizes)

(* --------------------------- reading process ---------------------------- *)

\* the number of documents of each finalized corpus the process reads
MaxCacheDocs == 5

\* the token arrays of corpus b: lengths that differ from corpus to corpus
ProcessDocs(b) ==
    [k \in 1..MaxCacheDocs |-> TokensOf((k + b) % (MaxLen + 1), k)]

\* what add_item recorded for each of the token arrays docs, given in order
\* to a new builder s
BuiltItems(docs, s) ==
    [k \in DOMAIN docs |->
        [tokens |-> docs[k],
         at |-> Len(SingleBuilderData([j \in 1..(k - 1) |-> [tokens |-> docs[j]]], s)),
         len |-> Len(np_pad(docs[k], s.chunk_size, s.pad_id, s.retrieval_db)),
         by |-> "add_item"]]

\* the chunk_size and retrieval_db flag the builders were constructed with
ProcessConfigs == {<<1, FALSE>>, <<MaxChunk, TRUE>>}

\* corpus 2: as many documents as corpus 1 and finalized, finalized without
\* a document, or not finalized yet
ProcessCorpora == {<<MaxCacheDocs, TRUE>>, <<0, TRUE>>, <<MaxCacheDocs, FALSE>>}

\* the builders were given their token arrays and corpus 1 was finalized.
\* No store is open yet
InitProcess ==
    \E c \in ProcessConfigs, o \in ProcessCorpora :
        LET cs == c[1]
            rdb == c[2]
            n == o[1]
            closed == o[2]
            s == NewBuilder(cs, PadId, rdb, 4)
            docs == [b \in Builders |->
                        IF b = 1 THEN ProcessDocs(b) ELSE SubSeq(ProcessDocs(b), 1, n)]
            its == [b \in Builders |-> BuiltItems(docs[b], s)]
            done == [b \in Builders |-> b = 1 \/ closed]
        IN  /\ builder = [b \in Builders |->
                            [s EXCEPT !.sizes = SingleBuilderSizes(its[b], s),
                                      !.closed = done[b]]]
            /\ bin = [b \in Builders |-> SingleBuilderData(its[b], s)]
            /\ idx = [b \in Builders |->
                        IF done[b]
                        THEN IndexFile(SingleBuilderSizes(its[b], s), cs, 4, rdb)
                        ELSE <<>>]
            /\ items = its
            /\ last = Call("init", 0, 0, "none", <<>>)
            /\ writer = IdleWriter
            /\ proc = NoProcess

\* the process constructs a store on corpus p at a free identity; the first
\* identity is kept for stores on corpus 1
Construct ==
    \E X \in Insts, p \in Builders :
        /\ (X = 1 => p = 1)
        /\ proc.inst[X].state \in {"free", "gone"}
        /\ proc' = [proc EXCEPT !.inst[X] = store_init(X, p)]
        /\ last' = Call("store_init", X, p, StoreOpen(p).err, <<>>)
        /\ UNCHANGED <<builder, bin, idx, items, writer>>

\* the process drops its last reference to a live store
Destroy ==
    \E X \in Insts :
        /\ proc.inst[X].state = "live"
        /\ proc' = [proc EXCEPT !.inst[X] = store_del(@, Pinned(proc.cache, X))]
        /\ last' = Call("store_del", X, proc.inst[X].corpus, "none", <<>>)
        /\ UNCHANGED <<builder, bin, idx, items, writer>>

\* a live store is asked for the document it has come to and moves on to
\* the next one, the first again after the last
StoreGet ==
    \E X \in Insts :
        LET r == proc.inst[X]
            st == StoreOpen(r.corpus)
            e == cached_getitem(proc.cache, X, st.index, r.at)
            v == get_at(st, e)
        IN  /\ r.state = "live"
            /\ proc' = [inst |-> release_evicted(
                                    [proc.inst EXCEPT
                                        ![X].at = (r.at + 1) % st.index.len],
                                    e.cache),
                        cache |-> e.cache]
            /\ last' = Call("store_get", X, <<r.at, e.ptr, e.size>>, v.err, v.out)
            /\ UNCHANGED <<builder, bin, idx, items, writer>>

\* the calls of a store that do not go through the cache
DirectOps == {"store_range", "store_chunk_id", "store_chunk"}

\* such a call of the store X follows its construction or one of its
\* lookups: it changes neither the files nor the process, so the calls of
\* the other stores may come between as they may in any other order
DirectOnce(X) == last.op \in {"store_init", "store_get"} /\ last.b = X

\* a live store is asked for the range of two documents from the one it has
\* come to
StoreRange ==
    \E X \in Insts :
        LET r == proc.inst[X]
            v == getitem_slice(StoreOpen(r.corpus), r.at, r.at + 2, 1)
        IN  /\ r.state = "live"
            /\ DirectOnce(X)
            /\ last' = Call("store_range", X, <<r.at, r.at + 2, 1>>, v.err, v.outs)
            /\ UNCHANGED <<builder, bin, idx, items, writer, proc>>

\* a live store is asked for the chunk id of the start of the document it
\* has come to
StoreChunkId ==
    \E X \in Insts :
        LET r == proc.inst[X]
            v == get_chunk_id(StoreOpen(r.corpus), r.at, 0)
        IN  /\ r.state = "live"
            /\ DirectOnce(X)
            /\ last' = Call("store_chunk_id", X, <<r.at, 0>>, v.err, v.val)
            /\ UNCHANGED <<builder, bin, idx, items, writer, proc>>

\* a live store is asked for the chunk whose id is the position it has come
\* to
StoreChunk ==
    \E X \in Insts :
        LET r == proc.inst[X]
            v == get_chunk(StoreOpen(r.corpus), r.at)
        IN  /\ r.state = "live"
            /\ DirectOnce(X)
            /\ last' = Call("store_chunk", X, r.at, v.err, v.out)
            /\ UNCHANGED <<builder, bin, idx, items, writer, proc>>

NextProcess ==
    Construct \/ Destroy \/ StoreGet \/ StoreRange \/ StoreChunkId \/ StoreChunk

\* one process constructs stores on the finalized corpora, reads through
\* them and drops them, in any order
SpecProcess == InitProcess /\ [][NextProcess]_vars

\* the reader of document ids that a store freshly opened on the corpus of
\* the store X would hold
FreshStore(X) == StoreOpen(proc.inst[X].corpus)

\* C29: with the lookups of all open stores interleaved and sharing the
\* 8-entry cache keyed by (instance, id), every lookup of document i through
\* the store X returns (pointers_X[i], sizes_X[i]) of the index file X was
\* opened on, whatever was cached or evicted before.
CacheTransparent ==
    [][\A X \in Insts :
         Called("store_get", X) =>
             LET index == IndexOpen(idx[proc.inst[X].corpus])
                 i == last'.arg[1]
             IN  /\ index.err = "none"
                 /\ 0 <= i /\ i < index.len
                 /\ last'.arg[2] = index.pointers[i + 1]
                 /\ last'.arg[3] = index.sizes[i + 1]]_vars

\* C29 witness: stores on different files are open, the cache is full, an
\* earlier entry of the store that just looked up document i has been
\* evicted, and the cache holds for the same id another pair of the other
\* store
CacheTransparentWitness ==
    /\ last.op = "store_get"
    /\ Len(proc.cache) = maxsize
    /\ \E Y \in Insts \ {last.b} :
        /\ proc.inst[Y].state = "live"
        /\ proc.inst[last.b].state = "live"
        /\ proc.inst[Y].corpus # proc.inst[last.b].corpus
        /\ \E k \in DOMAIN proc.cache :
            /\ proc.cache[k].key = <<Y, last.arg[1]>>
            /\ <<proc.cache[k].ptr, proc.cache[k].size>> # <<last.arg[2], last.arg[3]>>
    /\ \E j \in 0..(last.arg[1] - 1) :
        CacheFind(proc.cache, <<last.b, j>>) = 0

\* C22: whatever stores are open in the process, several of them on the same
\* finalized file pair, and however their calls interleave, a call of get,
\* of a range, of get_chunk_id or of get_chunk changes neither the index file
\* nor the data file and returns what the same call returns on a freshly
\* opened store.
ReadersIndependent ==
    [][\A X \in Insts :
         (last'.b = X /\ last'.op \in DirectOps \cup {"store_get"}) =>
             LET st == FreshStore(X)
                 a == last'.arg
             IN  /\ UNCHANGED <<bin, idx>>
                 /\ st.err = "none"
                 /\ last'.op = "store_get" =>
                        LET v == get(st, a[1], 0, -1)
                        IN  last'.err = v.err /\ last'.out = v.out
                 /\ last'.op = "store_range" =>
                        LET v == getitem_slice(st, a[1], a[2], a[3])
                        IN  last'.err = v.err /\ last'.out = v.outs
                 /\ last'.op = "store_chunk_id" =>
                        LET v == get_chunk_id(st, a[1], a[2])
                        IN  last'.err = v.err /\ last'.out = v.val
                 /\ last'.op = "store_chunk" =>
                        LET v == get_chunk(st, a)
                        IN  last'.err = v.err /\ last'.out = v.out]_vars

\* C22 witness: two stores are open on the same file pair, both have entries
\* in the cache, and the one that looked up last returned a document that
\* does not start the data file
ReadersIndependentWitness ==
    /\ last.op = "store_get" /\ last.err = "none"
    /\ last.arg[2] > 0 /\ Len(last.out) > 0
    /\ \A X \in Insts :
        /\ proc.inst[X].state = "live"
        /\ proc.inst[X].corpus = 1
        /\ Pinned(proc.cache, X)

\* C23: once a store has been destroyed, or its construction has failed, no
\* memory mapping of the store or of its index reader is open, and the
\* teardown raised nothing: it did not reach for a mapping that was never
\* created.
MappingsReleased ==
    \A X \in Insts :
        proc.inst[X].state \in {"pinned", "gone"} =>
            /\ proc.inst[X].index_mmap # "open"
            /\ proc.inst[X].data_mmap # "open"
            /\ proc.inst[X].del_err = "none"

====
